---- MODULE Spec2Model ----
(***************************************************************************)
(* Permission resolution (role defaults merged with per-user overrides)    *)
(* and year-scoped identifier assignment of the BPO internal platform.     *)
(*   app/services/rbac_service.py, app/services/pay_dispute_service.py,    *)
(*   app/services/ir_nte_service.py, app/main.py, app/models/*.py          *)
(***************************************************************************)
EXTENDS Integers, Sequences, FiniteSets, TLC

(***************************************************************************)
(* Bounds of the model.                                                    *)
(***************************************************************************)
\* highest primary key handed out in user_module_permissions
MaxOverrideId == 2

\* web workers serving requests at the same time
Procs == {1, 2}

None == "None"
\* "no row" where a row id is expected; also the caller without a session
NoId == 0
Anonymous == NoId

(***************************************************************************)
(* Catalog data: MODULES and ROLES of rbac_service.py, restricted to the   *)
(* modules and roles the model uses.                                       *)
(***************************************************************************)
Actions == {"view", "create", "edit", "delete"}

\* action names handed to check_permission; "module" is the extra key
\* get_user_permissions stores in each entry, "approve" is in no entry
ActionNames == Actions \cup {"module", "approve"}

Perm(v, c, e, d) == [view |-> v, create |-> c, edit |-> e, delete |-> d]

NoPerm == Perm(FALSE, FALSE, FALSE, FALSE)

MODULES ==
  [ dtr             |-> [id |-> 3,  sort_order |-> 2],
    pay_disputes    |-> [id |-> 6,  sort_order |-> 12],
    user_management |-> [id |-> 9,  sort_order |-> 90] ]

ModuleNames == DOMAIN MODULES

\* a name that is in no catalog row
UnknownModule == "payroll"

ROLES ==
  [ admin   |-> [ dtr             |-> Perm(TRUE, TRUE, TRUE, TRUE),
                  pay_disputes    |-> Perm(TRUE, TRUE, TRUE, TRUE),
                  user_management |-> Perm(TRUE, TRUE, TRUE, TRUE) ],
    finance |-> [ pay_disputes    |-> Perm(TRUE, TRUE, TRUE, FALSE),
                  dtr             |-> Perm(TRUE, FALSE, FALSE, FALSE) ],
    agent   |-> [ dtr             |-> Perm(TRUE, TRUE, FALSE, FALSE) ] ]

RoleNames == DOMAIN ROLES

UserIds == {1, 2}

\* flag combinations a grant request carries
FlagChoices ==
  { NoPerm,
    Perm(TRUE, FALSE, TRUE, FALSE) }

(***************************************************************************)
(* State.                                                                  *)
(***************************************************************************)
VARIABLES
  users,       \* users table: id -> [role_id, is_active, email,
               \*                     employee_no, full_name]
  modules,     \* modules table: name -> [id, sort_order, is_active]
  roles,       \* roles table: name -> [display_name]
  rolePerms,   \* role_module_permissions: row id -> [role_id, module_id, perm]
  userPerms,   \* user_module_permissions: row id -> [user_id, module_id, perm]
  payDisputes, \* pay_disputes: row id -> ticket_no
  irNteLogs,   \* ir_nte_logs: row id -> doc_id
  year,        \* datetime.now().year
  pc,          \* per worker: position in the request it serves
  req,         \* per worker: the request it serves
  resp         \* per worker: the response of the last finished request

vars == <<users, modules, roles, rolePerms, userPerms, payDisputes,
          irNteLogs, year, pc, req, resp>>

store == <<users, modules, roles, rolePerms, userPerms, payDisputes,
           irNteLogs>>

(***************************************************************************)
(* Helpers over tables (functions from row id to row).                     *)
(***************************************************************************)
Max(S) == CHOOSE x \in S : \A y \in S : y <= x

Min(S) == CHOOSE x \in S : \A y \in S : x <= y

\* primary key of the next inserted row
NextId(table) == IF DOMAIN table = {} THEN 1 ELSE Max(DOMAIN table) + 1

Insert(table, row) ==
  [i \in DOMAIN table \cup {NextId(table)} |->
     IF i \in DOMAIN table THEN table[i] ELSE row]

Delete(table, ids) == [i \in DOMAIN table \ ids |-> table[i]]

\* row ids in ascending order
RECURSIVE SortedIds(_)
SortedIds(S) ==
  IF S = {} THEN <<>> ELSE <<Min(S)>> \o SortedIds(S \ {Min(S)})

\* Query.first(): the matching row with the lowest id, or none
First(S) == IF S = {} THEN NoId ELSE Min(S)

\* a look-up by id that finds active modules only
ModuleByIdActive(mods, id) ==
  LET S == {n \in DOMAIN mods : mods[n].id = id /\ mods[n].is_active}
  IN IF S = {} THEN None ELSE CHOOSE n \in S : TRUE

\* db.query(Module).filter(Module.id == id).first()
ModuleByIdIn(mods, id) ==
  LET S == {n \in DOMAIN mods : mods[n].id = id}
  IN IF S = {} THEN None ELSE CHOOSE n \in S : TRUE

\* db.query(Module).filter(Module.name == name).first()
ModuleByName(name) == IF name \in DOMAIN modules THEN name ELSE None

(***************************************************************************)
(* Permission resolver: rbac_service.get_user_permissions.                 *)
(***************************************************************************)
\* dict assignment permissions[name] = entry
Put(map, name, entry) ==
  [n \in DOMAIN map \cup {name} |-> IF n = name THEN entry ELSE map[n]]

\* first loop: each role row overwrites the entry of its module
RECURSIVE RoleLoop(_, _, _, _)
RoleLoop(mods, role_perms, ids, map) ==
  IF ids = <<>> THEN map
  ELSE LET perm == role_perms[Head(ids)]
           module == ModuleByIdIn(mods, perm.module_id)
       IN RoleLoop(mods, role_perms, Tail(ids),
            IF module # None
            THEN Put(map, module,
                     [view |-> perm.perm.view, create |-> perm.perm.create,
                      edit |-> perm.perm.edit, delete |-> perm.perm.delete,
                      module |-> module])
            ELSE map)

\* a merge that needs both sides
MergeFlagAnd(existing, override) == existing /\ override

\* a merge in which the override row replaces the role default
MergeFlagReplace(existing, override) == override

\* permissions[name].get(flag, False) or perm.can_<flag>
MergeFlag(existing, override) == existing \/ override

\* second loop: each override row is merged into the entry of its module
\* (an entry created here starts as {"module": module}, so every .get
\* defaults to False)
RECURSIVE CustomLoop(_, _, _, _)
CustomLoop(mods, custom_perms, ids, map) ==
  IF ids = <<>> THEN map
  ELSE LET perm == custom_perms[Head(ids)]
           module == ModuleByIdIn(mods, perm.module_id)
       IN CustomLoop(mods, custom_perms, Tail(ids),
            IF module # None
            THEN LET old == IF module \in DOMAIN map
                            THEN map[module]
                            ELSE [view |-> FALSE, create |-> FALSE,
                                  edit |-> FALSE, delete |-> FALSE,
                                  module |-> module]
                 IN Put(map, module,
                        [view   |-> MergeFlag(old.view, perm.perm.view),
                         create |-> MergeFlag(old.create, perm.perm.create),
                         edit   |-> MergeFlag(old.edit, perm.perm.edit),
                         delete |-> MergeFlag(old.delete, perm.perm.delete),
                         module |-> module])
            ELSE map)

EmptyMap == [n \in {} |-> NoPerm]

\* a resolver that reads the role rows only
ResolveRoleOnly(usrs, mods, role_perms, custom_perms, user) ==
  LET role_id == usrs[user].role_id
      role_rows == {i \in DOMAIN role_perms : role_perms[i].role_id = role_id}
  IN IF role_id \in RoleNames
     THEN RoleLoop(mods, role_perms, SortedIds(role_rows), EmptyMap)
     ELSE EmptyMap

\* get_user_permissions over the tables handed to it; user is a row id of
\* the users table
Resolve(usrs, mods, role_perms, custom_perms, user) ==
  LET role_id == usrs[user].role_id
      role_rows == {i \in DOMAIN role_perms : role_perms[i].role_id = role_id}
      custom_rows == {i \in DOMAIN custom_perms : custom_perms[i].user_id = user}
      permissions == IF role_id \in RoleNames
                     THEN RoleLoop(mods, role_perms, SortedIds(role_rows), EmptyMap)
                     ELSE EmptyMap
  IN CustomLoop(mods, custom_perms, SortedIds(custom_rows), permissions)

\* rbac_service.get_user_permissions on the current store
get_user_permissions(user) == Resolve(users, modules, rolePerms, userPerms, user)

\* a Python value as check_permission's callers see it: whether it is a
\* bool, and its truthiness
PyBool(b) == [isBool |-> TRUE, truthy |-> b]

\* a Module instance: not a bool, and truthy
PyObject == [isBool |-> FALSE, truthy |-> TRUE]

\* a look-up that grants what the resolved map does not hold
LookUpMissingAllowed(permissions, module_name, action) ==
  IF module_name \notin DOMAIN permissions THEN PyBool(TRUE)
  ELSE IF action \in Actions THEN PyBool(permissions[module_name][action])
  ELSE IF action = "module" THEN PyObject
  ELSE PyBool(FALSE)

\* permissions[module_name].get(action, False), after the membership test
LookUp(permissions, module_name, action) ==
  IF module_name \notin DOMAIN permissions THEN PyBool(FALSE)
  ELSE IF action \in Actions THEN PyBool(permissions[module_name][action])
  ELSE IF action = "module" THEN PyObject
  ELSE PyBool(FALSE)

\* rbac_service.check_permission
check_permission(user, module_name, action) ==
  LookUp(get_user_permissions(user), module_name, action)

(***************************************************************************)
(* Module listing: rbac_service.get_accessible_modules.                    *)
(***************************************************************************)
\* a filter that keeps every module
ActiveModulesAll(mods) == DOMAIN mods

\* .filter(Module.is_active == True)
ActiveModules(mods) == {n \in DOMAIN mods : mods[n].is_active}

\* an ordering by descending sort position
ModuleBeforeDesc(mods, a, b) == mods[a].sort_order >= mods[b].sort_order

\* .order_by(Module.sort_order): a comes no later than b
ModuleBefore(mods, a, b) == mods[a].sort_order <= mods[b].sort_order

\* the module names of S in query order
RECURSIVE OrderBySortOrder(_, _)
OrderBySortOrder(mods, S) ==
  IF S = {} THEN <<>>
  ELSE LET first == CHOOSE a \in S : \A b \in S : ModuleBefore(mods, a, b)
       IN <<first>> \o OrderBySortOrder(mods, S \ {first})

\* the loop over all_modules: a module is appended when it is in the
\* resolved map and its "view" is truthy
RECURSIVE ListLoop(_, _, _)
ListLoop(permissions, names, accessible) ==
  IF names = <<>> THEN accessible
  ELSE LET name == Head(names)
       IN ListLoop(permissions, Tail(names),
            IF name \in DOMAIN permissions /\ permissions[name].view
            THEN Append(accessible,
                        [name       |-> name,
                         can_view   |-> permissions[name].view,
                         can_create |-> permissions[name].create,
                         can_edit   |-> permissions[name].edit,
                         can_delete |-> permissions[name].delete])
            ELSE accessible)

\* get_accessible_modules over the tables handed to it
Accessible(usrs, mods, role_perms, custom_perms, user) ==
  ListLoop(Resolve(usrs, mods, role_perms, custom_perms, user),
           OrderBySortOrder(mods, ActiveModules(mods)), <<>>)

\* rbac_service.get_accessible_modules on the current store
get_accessible_modules(user) ==
  Accessible(users, modules, rolePerms, userPerms, user)

(***************************************************************************)
(* Route guard: main.get_current_user and main.require_permission.        *)
(***************************************************************************)
\* the cookie of a caller resolves to the users row with that email, if any
get_current_user(caller) == IF caller \in DOMAIN users THEN caller ELSE NoId

\* a guard that only authenticates
require_permission_no_check(caller, module, action) ==
  IF get_current_user(caller) = NoId THEN "401" ELSE "ok"

\* "ok", or the status code of the HTTPException raised
require_permission(caller, module, action) ==
  LET user == get_current_user(caller)
  IN IF user = NoId THEN "401"
     ELSE IF ~check_permission(user, module, action).truthy THEN "403"
     ELSE "ok"

(***************************************************************************)
(* Requests.  A worker takes a request and runs the route's guard and its  *)
(* handler.  grant_custom_permission reads and later commits: it is two    *)
(* steps, so that other workers' commits can fall in between.              *)
(***************************************************************************)
\* module and action each route hands to require_permission
RouteGuard ==
  [ update_user_permissions |-> [module |-> "user_management", action |-> "edit"],
    remove_user_permissions |-> [module |-> "user_management", action |-> "edit"],
    update_user_role        |-> [module |-> "user_management", action |-> "edit"] ]

Callers == UserIds \cup {Anonymous}

\* users whose overrides the requests are about
TargetUsers == {2}

\* module names a permissions request carries
RequestModules == {"dtr", "user_management", UnknownModule}

\* an identifier "PREFIX-YYYY-NNNN": the suffix is a string of characters,
\* 0..9 the digits and 10.. the letters a..
NoTicket == [prefix |-> None, year |-> 0, suffix |-> <<>>]

\* the fields of a user request's body; None is a field the body leaves out
NoData == [email |-> None, employee_no |-> None, role_name |-> None,
           is_active |-> None]

\* op, action, map and overlapped belong to a read of the permissions: the
\* function called, its action argument, the permissions dict built so far
\* and whether another worker was serving a request during the read
NoReq == [caller |-> NoId, user_id |-> NoId, module |-> None,
          perm |-> NoPerm, existing |-> NoId, ticket |-> NoTicket,
          data |-> NoData, op |-> None, action |-> None, map |-> EmptyMap,
          overlapped |-> FALSE]

\* what a read returned, with its arguments
NoResult == [op |-> None, user_id |-> NoId, module |-> None, action |-> None,
             overlapped |-> FALSE, value |-> None]

NoResp == [status |-> None, caller |-> NoId, ticket |-> NoTicket,
           result |-> NoResult]

RespondTicket(p, status, caller, ticket) ==
  /\ resp' = [resp EXCEPT ![p] =
               [status |-> status, caller |-> caller, ticket |-> ticket,
                result |-> NoResult]]
  /\ pc' = [pc EXCEPT ![p] = "idle"]
  /\ req' = [req EXCEPT ![p] = NoReq]

Respond(p, status, caller) == RespondTicket(p, status, caller, NoTicket)

\* rows of user_module_permissions for (user_id, module name)
OverrideRows(user_id, module) ==
  {i \in DOMAIN userPerms : /\ userPerms[i].user_id = user_id
                            /\ userPerms[i].module_id = modules[module].id}

\* inserts of override rows that workers have decided on but not committed
PendingInserts ==
  {q \in Procs : pc[q] = "grant_commit" /\ req[q].existing = NoId}

\* main.update_user_permissions: the guard, then grant_custom_permission up
\* to the look-up of the existing row; its ValueError becomes a 400
update_user_permissions(p, caller, user_id, module_name, perm) ==
  LET g == require_permission(caller, RouteGuard.update_user_permissions.module,
                              RouteGuard.update_user_permissions.action)
      module == ModuleByName(module_name)
  IN /\ pc[p] = "idle"
     /\ IF g # "ok" THEN Respond(p, g, caller)
        ELSE IF module = None THEN Respond(p, "400", caller)
        ELSE LET existing == First(OverrideRows(user_id, module))
             IN /\ existing = NoId =>
                     NextId(userPerms) + Cardinality(PendingInserts)
                       <= MaxOverrideId
                /\ pc' = [pc EXCEPT ![p] = "grant_commit"]
                /\ req' = [req EXCEPT ![p] =
                             [NoReq EXCEPT !.caller = caller,
                                           !.user_id = user_id,
                                           !.module = module, !.perm = perm,
                                           !.existing = existing]]
                /\ resp' = [resp EXCEPT ![p] = NoResp]
     /\ UNCHANGED <<store, year>>

\* the row grant_custom_permission writes
GrantRow(r) ==
  [user_id |-> r.user_id, module_id |-> modules[r.module].id, perm |-> r.perm]

\* grant_custom_permission from the update or insert to the commit; an
\* update of a row deleted meanwhile matches no row and raises
grant_custom_permission(p) ==
  /\ pc[p] = "grant_commit"
  /\ IF req[p].existing = NoId
     THEN /\ userPerms' = Insert(userPerms, GrantRow(req[p]))
          /\ Respond(p, "200", req[p].caller)
     ELSE IF req[p].existing \in DOMAIN userPerms
     THEN /\ userPerms' = [userPerms EXCEPT ![req[p].existing] = GrantRow(req[p])]
          /\ Respond(p, "200", req[p].caller)
     ELSE /\ userPerms' = userPerms
          /\ Respond(p, "500", req[p].caller)
  /\ UNCHANGED <<users, modules, roles, rolePerms, payDisputes, irNteLogs, year>>

\* main.update_user_permissions served with no other request overlapping
\* it: the guard and the whole of grant_custom_permission in one step
update_user_permissions_call(p, caller, user_id, module_name, perm) ==
  LET g == require_permission(caller, RouteGuard.update_user_permissions.module,
                              RouteGuard.update_user_permissions.action)
      module == ModuleByName(module_name)
  IN /\ \A q \in Procs : pc[q] = "idle"
     /\ IF g # "ok"
        THEN /\ userPerms' = userPerms
             /\ Respond(p, g, caller)
        ELSE IF module = None
        THEN /\ userPerms' = userPerms
             /\ Respond(p, "400", caller)
        ELSE LET existing == First(OverrideRows(user_id, module))
                 row == GrantRow([NoReq EXCEPT !.user_id = user_id,
                                               !.module = module, !.perm = perm])
             IN /\ existing = NoId => NextId(userPerms) <= MaxOverrideId
                /\ userPerms' = IF existing = NoId
                                THEN Insert(userPerms, row)
                                ELSE [userPerms EXCEPT ![existing] = row]
                /\ Respond(p, "200", caller)
     /\ UNCHANGED <<users, modules, roles, rolePerms, payDisputes, irNteLogs, year>>

\* rbac_service.revoke_custom_permission: the value it returns
revoke_result(user_id, module_name) ==
  /\ ModuleByName(module_name) # None
  /\ OverrideRows(user_id, module_name) # {}

\* rbac_service.revoke_custom_permission: the table it leaves
revoke_custom_permission(user_id, module_name) ==
  IF revoke_result(user_id, module_name)
  THEN Delete(userPerms, {First(OverrideRows(user_id, module_name))})
  ELSE userPerms

\* main.remove_user_permissions: the guard, then the revocation; answers
\* success whatever revoke_custom_permission returned
remove_user_permissions(p, caller, user_id, module_name) ==
  LET g == require_permission(caller, RouteGuard.remove_user_permissions.module,
                              RouteGuard.remove_user_permissions.action)
  IN /\ pc[p] = "idle"
     /\ IF g # "ok"
        THEN /\ userPerms' = userPerms
             /\ Respond(p, g, caller)
        ELSE /\ userPerms' = revoke_custom_permission(user_id, module_name)
             /\ Respond(p, "200", caller)
     /\ UNCHANGED <<users, modules, roles, rolePerms, payDisputes, irNteLogs, year>>

\* role names a role request carries; the last is the name of no role
RequestRoles == RoleNames \cup {"nobody"}

\* main.update_user_role: the guard, the two look-ups, the assignment
update_user_role(p, caller, user_id, role_name) ==
  LET g == require_permission(caller, RouteGuard.update_user_role.module,
                              RouteGuard.update_user_role.action)
  IN /\ pc[p] = "idle"
     /\ IF g # "ok"
        THEN /\ users' = users
             /\ Respond(p, g, caller)
        ELSE IF user_id \notin DOMAIN users \/ role_name \notin DOMAIN roles
        THEN /\ users' = users
             /\ Respond(p, "404", caller)
        ELSE /\ users' = [users EXCEPT ![user_id].role_id = role_name]
             /\ Respond(p, "200", caller)
     /\ UNCHANGED <<modules, roles, rolePerms, userPerms, payDisputes, irNteLogs, year>>

\* the is_active column of a modules row written by the administration of
\* the database; no route writes it
set_module_active(m, b) ==
  /\ modules[m].is_active # b
  /\ modules' = [modules EXCEPT ![m].is_active = b]
  /\ UNCHANGED <<users, roles, rolePerms, userPerms, payDisputes, irNteLogs, year,
                 pc, req, resp>>

(***************************************************************************)
(* Reads of the permissions by concurrent workers.  Each worker builds its *)
(* permissions dict in a local variable, one query after the other.        *)
(***************************************************************************)
ReadOps == {"get_user_permissions", "check_permission", "get_accessible_modules"}

\* the actions a check_permission read asks for
ReadActions == {"edit", "module"}

\* the modules a check_permission read asks for
ReadModules == {"dtr", UnknownModule}

PartialMapShared(p) == req[Min(Procs)].map

\* the permissions dict of worker p's call
PartialMap(p) == req[p].map

\* whether a request of another worker is being served
Overlapping(p) == \E q \in Procs \ {p} : pc[q] # "idle"

\* a worker calls one of the three functions for a user
read_begin(p, op, user, module_name, action) ==
  /\ pc[p] = "idle"
  /\ op # "check_permission" => module_name = None /\ action = None
  /\ op = "check_permission" => module_name # None /\ action # None
  /\ pc' = [pc EXCEPT ![p] = "role_rows"]
  /\ req' = [req EXCEPT ![p] =
               [NoReq EXCEPT !.op = op, !.user_id = user,
                             !.module = module_name, !.action = action,
                             !.overlapped = Overlapping(p)]]
  /\ resp' = [resp EXCEPT ![p] = NoResp]
  /\ UNCHANGED <<store, year>>

\* get_user_permissions: the query of the role rows and its loop
read_role_rows(p) ==
  LET user == req[p].user_id
      role_id == users[user].role_id
      role_rows == {i \in DOMAIN rolePerms : rolePerms[i].role_id = role_id}
  IN /\ pc[p] = "role_rows"
     /\ pc' = [pc EXCEPT ![p] = "custom_rows"]
     /\ req' = [req EXCEPT
                  ![p].map = IF role_id \in RoleNames
                             THEN RoleLoop(modules, rolePerms,
                                           SortedIds(role_rows), EmptyMap)
                             ELSE EmptyMap,
                  ![p].overlapped = @ \/ Overlapping(p)]
     /\ UNCHANGED <<store, year, resp>>

\* the return of a read
Return(p, value) ==
  /\ resp' = [resp EXCEPT ![p] =
                [NoResp EXCEPT
                   !.status = "200",
                   !.result = [op |-> req[p].op, user_id |-> req[p].user_id,
                               module |-> req[p].module,
                               action |-> req[p].action,
                               overlapped |-> req[p].overlapped
                                              \/ Overlapping(p),
                               value |-> value]]]
  /\ pc' = [pc EXCEPT ![p] = "idle"]
  /\ req' = [req EXCEPT ![p] = NoReq]

\* get_user_permissions: the query of the custom rows, its loop and the
\* return; check_permission looks the module and the action up
read_custom_rows(p) ==
  LET user == req[p].user_id
      custom_rows == {i \in DOMAIN userPerms : userPerms[i].user_id = user}
      permissions == CustomLoop(modules, userPerms, SortedIds(custom_rows),
                                PartialMap(p))
  IN /\ pc[p] = "custom_rows"
     /\ IF req[p].op = "get_user_permissions" THEN Return(p, permissions)
        ELSE IF req[p].op = "check_permission"
        THEN Return(p, LookUp(permissions, req[p].module, req[p].action))
        ELSE /\ pc' = [pc EXCEPT ![p] = "modules_query"]
             /\ req' = [req EXCEPT ![p].map = permissions,
                                   ![p].overlapped = @ \/ Overlapping(p)]
             /\ resp' = resp
     /\ UNCHANGED <<store, year>>

\* get_accessible_modules: the query of the active modules and its loop
read_modules(p) ==
  /\ pc[p] = "modules_query"
  /\ Return(p, ListLoop(PartialMap(p),
                        OrderBySortOrder(modules, ActiveModules(modules)),
                        <<>>))
  /\ UNCHANGED <<store, year>>

(***************************************************************************)
(* User administration: main.create_new_user, update_user, delete_user and *)
(* toggle_user_status.  A creation and an update check the unique columns  *)
(* and commit later: each is two steps.                                    *)
(***************************************************************************)
\* highest primary key handed out in users
MaxUserId == 3

\* users other than `self` holding the email
EmailHolders(usrs, self, email) ==
  {u \in DOMAIN usrs : u # self /\ usrs[u].email = email}

\* users other than `self` holding the employee number
EmployeeNoHolders(usrs, self, employee_no) ==
  {u \in DOMAIN usrs : u # self /\ usrs[u].employee_no = employee_no}

UserUniqueViolationNever(usrs, self, row) == FALSE

\* the unique indexes of users.email and users.employee_no refusing a row
UserUniqueViolation(usrs, self, row) ==
  \/ EmailHolders(usrs, self, row.email) # {}
  \/ EmployeeNoHolders(usrs, self, row.employee_no) # {}

\* creations of users that workers have decided on but not committed
PendingUsers == {q \in Procs : pc[q] = "create_user"}

\* main.create_new_user: the guard and the three checks before create_user
create_new_user(p, caller, data) ==
  LET g == require_permission(caller, "user_management", "create")
  IN /\ pc[p] = "idle"
     /\ IF g # "ok" THEN Respond(p, g, caller)
        ELSE IF EmailHolders(users, NoId, data.email) # {}
        THEN Respond(p, "400", caller)
        ELSE IF EmployeeNoHolders(users, NoId, data.employee_no) # {}
        THEN Respond(p, "400", caller)
        ELSE IF data.role_name \notin DOMAIN roles THEN Respond(p, "400", caller)
        ELSE /\ NextId(users) + Cardinality(PendingUsers) <= MaxUserId
             /\ pc' = [pc EXCEPT ![p] = "create_user"]
             /\ req' = [req EXCEPT ![p] = [NoReq EXCEPT !.caller = caller,
                                                        !.data = data]]
             /\ resp' = [resp EXCEPT ![p] = NoResp]
     /\ UNCHANGED <<store, year>>

\* the users row auth_service.create_user builds
NewUser(data) ==
  [role_id |-> data.role_name, is_active |-> TRUE, email |-> data.email,
   employee_no |-> data.employee_no, full_name |-> "Cy"]

\* auth_service.create_user from db.add to the return; the IntegrityError
\* of a unique index is caught nowhere and the request answers 500
create_user(p) ==
  /\ pc[p] = "create_user"
  /\ IF UserUniqueViolation(users, NoId, NewUser(req[p].data))
     THEN /\ users' = users
          /\ Respond(p, "500", req[p].caller)
     ELSE /\ users' = Insert(users, NewUser(req[p].data))
          /\ Respond(p, "200", req[p].caller)
  /\ UNCHANGED <<modules, roles, rolePerms, userPerms, payDisputes, irNteLogs,
                 year>>

\* a JSON boolean of a request body
JsonBool(b) == IF b THEN "true" ELSE "false"

\* the attributes main.update_user assigns to the loaded row: a field the
\* body leaves out, a role that does not exist and a value the row already
\* has assign nothing
Changes(row, data) ==
  [email |-> IF data.email # None /\ data.email # row.email
             THEN data.email ELSE None,
   employee_no |-> IF data.employee_no # None
                      /\ data.employee_no # row.employee_no
                   THEN data.employee_no ELSE None,
   role_name |-> IF data.role_name \in DOMAIN roles /\ data.role_name # row.role_id
                 THEN data.role_name ELSE None,
   is_active |-> IF data.is_active # None
                    /\ data.is_active # JsonBool(row.is_active)
                 THEN data.is_active ELSE None]

\* the row with the assigned attributes written
Updated(row, changes) ==
  [role_id |-> IF changes.role_name # None THEN changes.role_name
               ELSE row.role_id,
   is_active |-> IF changes.is_active # None
                 THEN changes.is_active = JsonBool(TRUE) ELSE row.is_active,
   email |-> IF changes.email # None THEN changes.email ELSE row.email,
   employee_no |-> IF changes.employee_no # None THEN changes.employee_no
                   ELSE row.employee_no,
   full_name |-> row.full_name]

\* main.update_user: the guard, the look-up of the target, the two checks
\* and the assignments
update_user(p, caller, user_id, data) ==
  LET g == require_permission(caller, "user_management", "edit")
  IN /\ pc[p] = "idle"
     /\ IF g # "ok" THEN Respond(p, g, caller)
        ELSE IF user_id \notin DOMAIN users THEN Respond(p, "404", caller)
        ELSE IF /\ data.email # None
                /\ data.email # users[user_id].email
                /\ EmailHolders(users, NoId, data.email) # {}
        THEN Respond(p, "400", caller)
        ELSE IF /\ data.employee_no # None
                /\ data.employee_no # users[user_id].employee_no
                /\ EmployeeNoHolders(users, NoId, data.employee_no) # {}
        THEN Respond(p, "400", caller)
        ELSE /\ pc' = [pc EXCEPT ![p] = "update_user_commit"]
             /\ req' = [req EXCEPT ![p] =
                          [NoReq EXCEPT !.caller = caller, !.user_id = user_id,
                                        !.data = Changes(users[user_id], data)]]
             /\ resp' = [resp EXCEPT ![p] = NoResp]
     /\ UNCHANGED <<store, year>>

\* main.update_user from db.commit to the return: an UPDATE of a row deleted
\* meanwhile matches no row, and a unique index may refuse the row; both
\* raise and the request answers 500
update_user_commit(p) ==
  LET user_id == req[p].user_id
  IN /\ pc[p] = "update_user_commit"
     /\ IF req[p].data = NoData
        THEN /\ users' = users
             /\ Respond(p, "200", req[p].caller)
        ELSE IF user_id \notin DOMAIN users
        THEN /\ users' = users
             /\ Respond(p, "500", req[p].caller)
        ELSE IF UserUniqueViolation(users, user_id,
                                    Updated(users[user_id], req[p].data))
        THEN /\ users' = users
             /\ Respond(p, "500", req[p].caller)
        ELSE /\ users' = [users EXCEPT ![user_id] = Updated(@, req[p].data)]
             /\ Respond(p, "200", req[p].caller)
     /\ UNCHANGED <<modules, roles, rolePerms, userPerms, payDisputes,
                    irNteLogs, year>>

CascadeOverridesNone(table, user_id) == table

\* the override rows left by the bulk delete of delete_user and by the
\* delete-orphan cascade of User.custom_permissions
CascadeOverrides(table, user_id) ==
  Delete(table, {i \in DOMAIN table : table[i].user_id = user_id})

\* main.delete_user
delete_user(p, caller, user_id) ==
  LET g == require_permission(caller, "user_management", "delete")
  IN /\ pc[p] = "idle"
     /\ IF g # "ok"
        THEN /\ UNCHANGED <<users, userPerms>>
             /\ Respond(p, g, caller)
        ELSE IF user_id \notin DOMAIN users
        THEN /\ UNCHANGED <<users, userPerms>>
             /\ Respond(p, "404", caller)
        ELSE IF user_id = caller
        THEN /\ UNCHANGED <<users, userPerms>>
             /\ Respond(p, "400", caller)
        ELSE /\ userPerms' = CascadeOverrides(userPerms, user_id)
             /\ users' = Delete(users, {user_id})
             /\ Respond(p, "200", caller)
     /\ UNCHANGED <<modules, roles, rolePerms, payDisputes, irNteLogs, year>>

\* main.toggle_user_status
toggle_user_status(p, caller, user_id) ==
  LET g == require_permission(caller, "user_management", "edit")
  IN /\ pc[p] = "idle"
     /\ IF g # "ok"
        THEN /\ users' = users
             /\ Respond(p, g, caller)
        ELSE IF user_id \notin DOMAIN users
        THEN /\ users' = users
             /\ Respond(p, "404", caller)
        ELSE IF user_id = caller
        THEN /\ users' = users
             /\ Respond(p, "400", caller)
        ELSE /\ users' = [users EXCEPT ![user_id].is_active = ~@]
             /\ Respond(p, "200", caller)
     /\ UNCHANGED <<modules, roles, rolePerms, userPerms, payDisputes,
                    irNteLogs, year>>

(***************************************************************************)
(* The employee directory: employee_service.get_employees_with_filters.    *)
(***************************************************************************)
\* a SQL comparison a != b evaluating to TRUE: with a NULL operand it
\* evaluates to NULL, and WHERE keeps no such row
SqlNotEqual(a, b) == a # None /\ b # None /\ a # b

\* a SQL comparison a = b evaluating to TRUE
SqlEqual(a, b) == a # None /\ b # None /\ a = b

\* the values of full_name, employee_no and email that contain a search
\* term, letter case ignored
Containing ==
  [ bo |-> {"Bo", "bo@bpo.com"},
    e00 |-> {"E001", "E002", "E003"} ]

\* value ILIKE '%term%'
ILike(value, term) == value \in Containing[term]

\* the place of a full name in the ascending order of the column
FullNameRank ==
  [ n \in {"Bo", "Cy", "System Administrator"} |->
      IF n = "Bo" THEN 1 ELSE IF n = "Cy" THEN 2 ELSE 3 ]

\* Role.name of the outer join: NULL for a user with no role row
JoinedRoleName(usrs, rls, u) ==
  IF usrs[u].role_id \in DOMAIN rls THEN usrs[u].role_id ELSE None

\* the rows the query keeps after its filters
DirectoryRows(usrs, rls, filters) ==
  {u \in DOMAIN usrs :
     /\ "admin" \in DOMAIN rls => SqlNotEqual(usrs[u].role_id, "admin")
     /\ filters.search # None
        => \/ ILike(usrs[u].full_name, filters.search)
           \/ ILike(usrs[u].employee_no, filters.search)
           \/ ILike(usrs[u].email, filters.search)
     /\ filters.is_active # None
        => JsonBool(usrs[u].is_active) = filters.is_active
     /\ filters.role_name # None
        => SqlEqual(JoinedRoleName(usrs, rls, u), filters.role_name)}

\* u comes before v in ORDER BY full_name; rows of equal names by id
DirectoryBefore(usrs, u, v, sort_order) ==
  LET a == FullNameRank[usrs[u].full_name]
      b == FullNameRank[usrs[v].full_name]
  IN IF a = b THEN u < v
     ELSE IF sort_order = "desc" THEN a > b ELSE a < b

RECURSIVE OrderByFullName(_, _, _)
OrderByFullName(usrs, S, sort_order) ==
  IF S = {} THEN <<>>
  ELSE LET u == CHOOSE x \in S :
                  \A y \in S \ {x} : DirectoryBefore(usrs, x, y, sort_order)
       IN <<u>> \o OrderByFullName(usrs, S \ {u}, sort_order)

\* OFFSET offset LIMIT limit
Page(rows, offset, limit) ==
  SubSeq(rows, offset + 1, Min({Len(rows), offset + limit}))

get_employees_with_filters(filters) ==
  LET rows == DirectoryRows(users, roles, filters)
      offset == (filters.page - 1) * filters.limit
  IN [employees |-> Page(OrderByFullName(users, rows, filters.sort_order),
                         offset, filters.limit),
      total_count |-> Cardinality(rows)]

\* filters the directory requests carry
FilterChoices ==
  [search : {None, "bo", "e00"}, is_active : {None, "true", "false"},
   role_name : {None, "agent", "admin"}, sort_order : {"asc", "desc"},
   page : 1..2, limit : 1..2]

(***************************************************************************)
(* Identifier generation: pay_dispute_service.generate_ticket_number and   *)
(* ir_nte_service.generate_doc_id, and the creations that call them.       *)
(***************************************************************************)
\* highest primary key handed out in pay_disputes and in ir_nte_logs
MaxTicketId == 4

\* decimal digits of n, most significant first
RECURSIVE Digits(_)
Digits(n) == IF n < 10 THEN <<n>> ELSE Digits(n \div 10) \o <<n % 10>>

\* zero padding to at least four characters
RECURSIVE ZeroPad(_)
ZeroPad(ds) == IF Len(ds) >= 4 THEN ds ELSE ZeroPad(<<0>> \o ds)

\* f"{new_num:04d}"
Format04d(n) == ZeroPad(Digits(n))

IsNumeric(suffix) ==
  /\ suffix # <<>>
  /\ \A k \in 1..Len(suffix) : suffix[k] \in 0..9

\* int(suffix) of a numeric suffix
RECURSIVE ParseInt(_)
ParseInt(suffix) ==
  IF suffix = <<>> THEN 0
  ELSE 10 * ParseInt(SubSeq(suffix, 1, Len(suffix) - 1)) + suffix[Len(suffix)]

\* a LIKE pattern without the prefix
MatchingAnyPrefix(table, prefix, yr) ==
  {i \in DOMAIN table : table[i].year = yr}

\* a LIKE pattern without the year
MatchingAnyYear(table, prefix, yr) ==
  {i \in DOMAIN table : table[i].prefix = prefix}

\* rows whose identifier is LIKE f"{prefix}-{year}-%"
Matching(table, prefix, yr) ==
  {i \in DOMAIN table : table[i].prefix = prefix /\ table[i].year = yr}

\* the highest numeric suffix among the identifiers of the prefix and year,
\* 0 when there is none
MaxSuffix(table, prefix, yr) ==
  LET nums == {ParseInt(table[i].suffix) :
                 i \in {j \in DOMAIN table : /\ table[j].prefix = prefix
                                              /\ table[j].year = yr
                                              /\ IsNumeric(table[j].suffix)}}
  IN IF nums = {} THEN 0 ELSE Max(nums)

\* a generator that scans every matching row for the highest suffix
NewNumMaxSuffix(table, prefix, yr) == MaxSuffix(table, prefix, yr) + 1

\* a generator that reads the matching row with the lowest id
NewNumOldest(table, prefix, yr) ==
  LET rows == Matching(table, prefix, yr)
  IN IF rows = {} THEN 1
     ELSE LET latest == table[Min(rows)]
          IN IF IsNumeric(latest.suffix)
             THEN ParseInt(latest.suffix) + 1
             ELSE 1

\* the sequence number both generators compute: one more than the suffix of
\* the matching row with the highest id; 1 when there is none or its suffix
\* does not parse
NewNum(table, prefix, yr) ==
  LET rows == Matching(table, prefix, yr)
  IN IF rows = {} THEN 1
     ELSE LET latest == table[Max(rows)]
          IN IF IsNumeric(latest.suffix)
             THEN ParseInt(latest.suffix) + 1
             ELSE 1

generate_ticket_number ==
  [prefix |-> "PAY", year |-> year,
   suffix |-> Format04d(NewNum(payDisputes, "PAY", year))]

generate_doc_id(doc_type) ==
  [prefix |-> doc_type, year |-> year,
   suffix |-> Format04d(NewNum(irNteLogs, doc_type, year))]

DocTypes == {"IR", "NTE"}

\* a column without the unique index
UniqueViolationNever(table, ticket) == FALSE

\* the unique index on ticket_no / doc_id rejects the insert
UniqueViolation(table, ticket) == \E i \in DOMAIN table : table[i] = ticket

PendingCreates(state) == {q \in Procs : pc[q] = state}

\* create_pay_dispute up to the PayDispute(...) constructor
create_pay_dispute_generate(p) ==
  /\ pc[p] = "idle"
  /\ NextId(payDisputes) + Cardinality(PendingCreates("create_pay_dispute"))
       <= MaxTicketId
  /\ pc' = [pc EXCEPT ![p] = "create_pay_dispute"]
  /\ req' = [req EXCEPT ![p] = [NoReq EXCEPT !.ticket = generate_ticket_number]]
  /\ resp' = [resp EXCEPT ![p] = NoResp]
  /\ UNCHANGED <<store, year>>

\* create_pay_dispute from db.add to the return; the IntegrityError of the
\* commit is not caught
create_pay_dispute(p) ==
  /\ pc[p] = "create_pay_dispute"
  /\ IF UniqueViolation(payDisputes, req[p].ticket)
     THEN /\ payDisputes' = payDisputes
          /\ RespondTicket(p, "500", NoId, NoTicket)
     ELSE /\ payDisputes' = Insert(payDisputes, req[p].ticket)
          /\ RespondTicket(p, "200", NoId, req[p].ticket)
  /\ UNCHANGED <<users, modules, roles, rolePerms, userPerms, irNteLogs, year>>

\* create_ir_nte_log up to the IRNTELog(...) constructor
create_ir_nte_log_generate(p, doc_type) ==
  /\ pc[p] = "idle"
  /\ NextId(irNteLogs) + Cardinality(PendingCreates("create_ir_nte_log"))
       <= MaxTicketId
  /\ pc' = [pc EXCEPT ![p] = "create_ir_nte_log"]
  /\ req' = [req EXCEPT ![p] = [NoReq EXCEPT !.ticket = generate_doc_id(doc_type)]]
  /\ resp' = [resp EXCEPT ![p] = NoResp]
  /\ UNCHANGED <<store, year>>

\* create_ir_nte_log from db.add to the return
create_ir_nte_log(p) ==
  /\ pc[p] = "create_ir_nte_log"
  /\ IF UniqueViolation(irNteLogs, req[p].ticket)
     THEN /\ irNteLogs' = irNteLogs
          /\ RespondTicket(p, "500", NoId, NoTicket)
     ELSE /\ irNteLogs' = Insert(irNteLogs, req[p].ticket)
          /\ RespondTicket(p, "200", NoId, req[p].ticket)
  /\ UNCHANGED <<users, modules, roles, rolePerms, userPerms, payDisputes, year>>

\* pay_dispute_service.delete_pay_dispute; the route answers 404 when it
\* returns False
delete_pay_dispute(p, dispute_id) ==
  /\ \A q \in Procs : pc[q] = "idle"
  /\ IF dispute_id \in DOMAIN payDisputes
     THEN /\ payDisputes' = Delete(payDisputes, {dispute_id})
          /\ RespondTicket(p, "200", NoId, NoTicket)
     ELSE /\ payDisputes' = payDisputes
          /\ RespondTicket(p, "404", NoId, NoTicket)
  /\ UNCHANGED <<users, modules, roles, rolePerms, userPerms, irNteLogs, year>>

\* number of pay disputes the start-up seeding fills the table up to (the
\* count argument of seed_pay_disputes)
SeedCount == 2

\* f"PAY-{year}-{sequence:04d}" of scripts/seed_pay_disputes.py
SeedTicket(yr, sequence) ==
  [prefix |-> "PAY", year |-> yr, suffix |-> Format04d(sequence)]

\* the loop of seed_pay_disputes: one row per ticket_sequence up to count
RECURSIVE SeedLoop(_, _, _)
SeedLoop(table, ticket_sequence, count) ==
  IF ticket_sequence > count THEN table
  ELSE SeedLoop(Insert(table, SeedTicket(year, ticket_sequence)),
                ticket_sequence + 1, count)

\* seed_pay_disputes as startup_event calls it at a restart: the rows are
\* committed together, and the IntegrityError of a sequence number already
\* stored is swallowed by startup_event with nothing inserted
seed_pay_disputes ==
  LET existing_count == Cardinality(DOMAIN payDisputes)
      ticket_sequence == existing_count + 1
      collision == \E k \in ticket_sequence..SeedCount :
                     UniqueViolation(payDisputes, SeedTicket(year, k))
  IN /\ \A q \in Procs : pc[q] = "idle"
     /\ existing_count < SeedCount
     /\ NextId(payDisputes) + (SeedCount - existing_count) - 1 <= MaxTicketId
     /\ payDisputes' = IF collision THEN payDisputes
                       ELSE SeedLoop(payDisputes, ticket_sequence, SeedCount)
     /\ payDisputes' # payDisputes
     /\ UNCHANGED <<users, modules, roles, rolePerms, userPerms, irNteLogs, year,
                    pc, req, resp>>

\* last year the clock reaches
LastYear == 2027

\* datetime.now().year after New Year
advance_year ==
  /\ year < LastYear
  /\ year' = year + 1
  /\ UNCHANGED <<store, pc, req, resp>>

(***************************************************************************)
(* Initial state: the store after start-up seeding.                        *)
(***************************************************************************)
\* (role, module) pairs in the order seed_roles_and_modules inserts them
SeedPairs ==
  << <<"admin", "dtr">>, <<"admin", "pay_disputes">>,
     <<"admin", "user_management">>,
     <<"finance", "pay_disputes">>, <<"finance", "dtr">>,
     <<"agent", "dtr">> >>

SeededRolePerms ==
  [i \in 1..Len(SeedPairs) |->
     [role_id |-> SeedPairs[i][1],
      module_id |-> MODULES[SeedPairs[i][2]].id,
      perm |-> ROLES[SeedPairs[i][1]][SeedPairs[i][2]]]]

SeededModules ==
  [n \in ModuleNames |->
     [id |-> MODULES[n].id, sort_order |-> MODULES[n].sort_order,
      is_active |-> TRUE]]

\* the roles rows seed_roles_and_modules inserts; the display name of the
\* catalog is written as the name
SeededRoles == [r \in RoleNames |-> [display_name |-> r]]

EmptyTable == [i \in {} |-> None]

\* user 1 is the start-up administrator; user 2 is an employee, an agent
\* or a row without a role
SeededUsers ==
  {[i \in UserIds |->
      [role_id |-> IF i = 1 THEN "admin" ELSE r, is_active |-> TRUE,
       email |-> IF i = 1 THEN "admin@bpo.com" ELSE "bo@bpo.com",
       employee_no |-> IF i = 1 THEN "E001" ELSE "E002",
       full_name |-> IF i = 1 THEN "System Administrator" ELSE "Bo"]]
   : r \in {"agent", None}}

InitRbac ==
  /\ users \in SeededUsers
  /\ modules = SeededModules
  /\ roles = SeededRoles
  /\ rolePerms = SeededRolePerms
  /\ userPerms = EmptyTable
  /\ pc = [p \in Procs |-> "idle"]
  /\ req = [p \in Procs |-> NoReq]
  /\ resp = [p \in Procs |-> NoResp]

Init ==
  /\ InitRbac
  /\ payDisputes = EmptyTable
  /\ irNteLogs = EmptyTable
  /\ year = 2026

Ticket(prefix, yr, n) == [prefix |-> prefix, year |-> yr, suffix |-> Format04d(n)]

\* identifier tables with no identifier of the current year: empty, or
\* holding rows of the year before
InitIds ==
  /\ InitRbac
  /\ year = 2026
  /\ payDisputes \in {EmptyTable, Insert(EmptyTable, Ticket("PAY", 2025, 2))}
  /\ irNteLogs \in {EmptyTable, Insert(EmptyTable, Ticket("IR", 2025, 1))}

\* a stored identifier whose suffix is "abcd"
Malformed(prefix, yr) == [prefix |-> prefix, year |-> yr, suffix |-> <<10, 11, 12, 13>>]

\* identifier tables that hold nothing, a row of the year before, or a
\* corrupted identifier of the current year, alone or after a well-formed
\* one
InitStore ==
  /\ InitRbac
  /\ users[2].role_id = "agent"
  /\ year = 2026
  /\ payDisputes \in
       { EmptyTable,
         Insert(EmptyTable, Ticket("PAY", 2025, 2)),
         Insert(EmptyTable, Malformed("PAY", 2026)),
         Insert(Insert(EmptyTable, Ticket("PAY", 2026, 1)), Malformed("PAY", 2026)) }
  /\ irNteLogs \in {EmptyTable, Insert(EmptyTable, Malformed("IR", 2026))}

NextRbac ==
  \E p \in Procs :
    \/ \E caller \in Callers, u \in TargetUsers, m \in RequestModules,
          f \in FlagChoices :
         update_user_permissions(p, caller, u, m, f)
    \/ grant_custom_permission(p)
    \/ \E caller \in Callers, u \in TargetUsers, m \in RequestModules,
          f \in FlagChoices :
         update_user_permissions_call(p, caller, u, m, f)
    \/ \E caller \in Callers, u \in TargetUsers, m \in RequestModules :
         remove_user_permissions(p, caller, u, m)

SpecRbac == Init /\ [][NextRbac]_vars

\* creations by concurrent workers
NextIds ==
  \E p \in Procs :
    \/ create_pay_dispute_generate(p)
    \/ create_pay_dispute(p)
    \/ \E doc_type \in DocTypes : create_ir_nte_log_generate(p, doc_type)
    \/ create_ir_nte_log(p)

SpecIds == InitIds /\ [][NextIds]_vars

\* create_pay_dispute as one call, no other call overlapping it
create_pay_dispute_call(p) ==
  LET ticket == generate_ticket_number
  IN /\ \A q \in Procs : pc[q] = "idle"
     /\ NextId(payDisputes) <= MaxTicketId
     /\ IF UniqueViolation(payDisputes, ticket)
        THEN /\ payDisputes' = payDisputes
             /\ RespondTicket(p, "500", NoId, NoTicket)
        ELSE /\ payDisputes' = Insert(payDisputes, ticket)
             /\ RespondTicket(p, "200", NoId, ticket)
     /\ UNCHANGED <<users, modules, roles, rolePerms, userPerms, irNteLogs, year>>

\* create_ir_nte_log as one call, no other call overlapping it
create_ir_nte_log_call(p, doc_type) ==
  LET ticket == generate_doc_id(doc_type)
  IN /\ \A q \in Procs : pc[q] = "idle"
     /\ NextId(irNteLogs) <= MaxTicketId
     /\ IF UniqueViolation(irNteLogs, ticket)
        THEN /\ irNteLogs' = irNteLogs
             /\ RespondTicket(p, "500", NoId, NoTicket)
        ELSE /\ irNteLogs' = Insert(irNteLogs, ticket)
             /\ RespondTicket(p, "200", NoId, ticket)
     /\ UNCHANGED <<users, modules, roles, rolePerms, userPerms, payDisputes, year>>

\* creations one after the other, within one year
NextCreate ==
  \E p \in Procs :
    \/ create_pay_dispute_call(p)
    \/ \E doc_type \in DocTypes : create_ir_nte_log_call(p, doc_type)

SpecCreate == InitIds /\ [][NextCreate]_vars

\* the worker of a deployment that runs a single one
Worker == Min(Procs)

\* highest primary key handed out in ir_nte_logs next to a pay_disputes
\* table that is seeded and deleted from
MaxDocId == 2

\* creations and deletions one at a time, restarts and New Year; the
\* documents created are incident reports
NextStore ==
  \/ create_pay_dispute_call(Worker)
  \/ /\ NextId(irNteLogs) <= MaxDocId
     /\ create_ir_nte_log_call(Worker, "IR")
  \/ \E id \in 1..MaxTicketId : delete_pay_dispute(Worker, id)
  \/ seed_pay_disputes
  \/ advance_year

SpecStore == InitStore /\ [][NextStore]_vars

\* pay disputes created and deleted by two clients, one call at a time
NextTickets ==
  \E p \in Procs :
    \/ create_pay_dispute_call(p)
    \/ \E id \in 1..MaxTicketId : delete_pay_dispute(p, id)

SpecTickets == InitIds /\ [][NextTickets]_vars

\* bodies the creations of users carry: a new user, a held email, a held
\* employee number, a role that does not exist
CreateChoices ==
  { [NoData EXCEPT !.email = "cy@bpo.com", !.employee_no = "E003",
                   !.role_name = "agent"],
    [NoData EXCEPT !.email = "bo@bpo.com", !.employee_no = "E003",
                   !.role_name = "agent"],
    [NoData EXCEPT !.email = "cy@bpo.com", !.employee_no = "E002",
                   !.role_name = "agent"],
    [NoData EXCEPT !.email = "cy@bpo.com", !.employee_no = "E003",
                   !.role_name = "nobody"] }

\* bodies the updates of users carry
UpdateChoices ==
  { [NoData EXCEPT !.email = "cy@bpo.com"],
    [NoData EXCEPT !.email = "admin@bpo.com"],
    [NoData EXCEPT !.is_active = JsonBool(FALSE)] }

\* the administrator and a user whose role holds nothing on user_management
UserCallers == UserIds

\* the seeded store with the second user an agent
InitUsers ==
  /\ Init
  /\ users[2].role_id = "agent"

\* creations and updates of users by two workers, deletions and status
\* toggles by one
NextUsers ==
  \/ \E p \in Procs :
       \/ \E caller \in UserCallers, data \in CreateChoices :
            create_new_user(p, caller, data)
       \/ create_user(p)
       \/ \E caller \in UserCallers, u \in 1..MaxUserId, data \in UpdateChoices :
            update_user(p, caller, u, data)
       \/ update_user_commit(p)
  \/ \E caller \in UserCallers, u \in 1..MaxUserId :
       delete_user(Worker, caller, u)
  \/ \E caller \in UserCallers, u \in 1..MaxUserId :
       toggle_user_status(Worker, caller, u)

SpecUsers == InitUsers /\ [][NextUsers]_vars

\* deletions and creations of users among grants of overrides on one module
NextDelete ==
  \E p \in Procs :
    \/ \E caller \in UserCallers, u \in UserIds, f \in FlagChoices :
         update_user_permissions(p, caller, u, "dtr", f)
    \/ grant_custom_permission(p)
    \/ \E caller \in UserCallers, u \in 1..MaxUserId : delete_user(p, caller, u)
    \/ \E caller \in UserCallers :
         create_new_user(p, caller,
                         [NoData EXCEPT !.email = "cy@bpo.com",
                                        !.employee_no = "E003",
                                        !.role_name = "agent"])
    \/ create_user(p)

SpecDelete == InitUsers /\ [][NextDelete]_vars

\* requests served one at a time on users of every role and of none
NextDirectory ==
  \/ \E caller \in UserCallers, data \in CreateChoices :
       create_new_user(Worker, caller, data)
  \/ create_user(Worker)
  \/ \E caller \in UserCallers, u \in 1..MaxUserId, data \in UpdateChoices :
       update_user(Worker, caller, u, data)
  \/ update_user_commit(Worker)
  \/ \E caller \in UserCallers, u \in 1..MaxUserId :
       toggle_user_status(Worker, caller, u)
  \/ \E caller \in UserCallers, u \in TargetUsers, r \in RequestRoles :
       update_user_role(Worker, caller, u, r)

SpecDirectory == Init /\ [][NextDirectory]_vars

(***************************************************************************)
(* Start-up seeding: rbac_service.seed_roles_and_modules.  The function    *)
(* commits the modules, then each new role and, in a further commit, that  *)
(* role's permission rows; a run may be interrupted between two commits.   *)
(***************************************************************************)
\* the order of ROLES
RoleOrder == <<"admin", "finance", "agent">>

\* the commits of a run that finds an empty store
SeedCommits == 1 + 2 * Len(RoleOrder)

SeedModulesReset(mods) == SeededModules

\* the modules loop: a row for every catalog name that has none
SeedModules(mods) ==
  [n \in DOMAIN mods \cup ModuleNames |->
     IF n \in DOMAIN mods THEN mods[n] ELSE SeededModules[n]]

\* the permission rows of a role, in the order of its table
RECURSIVE AddPermissions(_, _, _, _)
AddPermissions(mods, role_perms, role, i) ==
  IF i > Len(SeedPairs) THEN role_perms
  ELSE IF SeedPairs[i][1] = role /\ SeedPairs[i][2] \in DOMAIN mods
  THEN AddPermissions(mods,
                      Insert(role_perms,
                             [role_id |-> role,
                              module_id |-> mods[SeedPairs[i][2]].id,
                              perm |-> ROLES[role][SeedPairs[i][2]]]),
                      role, i + 1)
  ELSE AddPermissions(mods, role_perms, role, i + 1)

\* the roles loop from the k-th role on, with `commits` commits left before
\* the run is interrupted; s holds the roles and the role permissions
RECURSIVE SeedRoles(_, _, _, _)
SeedRoles(mods, s, k, commits) ==
  IF k > Len(RoleOrder) THEN s
  ELSE IF RoleOrder[k] \in DOMAIN s.roles
  THEN SeedRoles(mods, s, k + 1, commits)
  ELSE IF commits = 0 THEN s
  ELSE LET role == RoleOrder[k]
           added == [r \in DOMAIN s.roles \cup {role} |->
                       IF r = role THEN SeededRoles[role] ELSE s.roles[r]]
       IN IF commits = 1 THEN [s EXCEPT !.roles = added]
          ELSE SeedRoles(mods,
                         [roles |-> added,
                          rolePerms |-> AddPermissions(mods, s.rolePerms,
                                                       role, 1)],
                         k + 1, commits - 2)

\* the store a run leaves that is interrupted after `commits` commits, or
\* ends earlier
Seeded(mods, rls, role_perms, commits) ==
  IF commits = 0
  THEN [modules |-> mods, roles |-> rls, rolePerms |-> role_perms]
  ELSE LET s == SeedRoles(SeedModules(mods),
                          [roles |-> rls, rolePerms |-> role_perms],
                          1, commits - 1)
       IN [modules |-> SeedModules(mods), roles |-> s.roles,
           rolePerms |-> s.rolePerms]

\* a run of seed_roles_and_modules; with SeedCommits commits it completes
seed_roles_and_modules(commits) ==
  LET s == Seeded(modules, roles, rolePerms, commits)
  IN /\ modules' = s.modules
     /\ roles' = s.roles
     /\ rolePerms' = s.rolePerms
     /\ <<modules', roles', rolePerms'>> # <<modules, roles, rolePerms>>
     /\ UNCHANGED <<users, userPerms, payDisputes, irNteLogs, year, pc, req,
                    resp>>

\* the flags of a role_module_permissions row written by the administration
\* of the database; no route writes them
set_role_permission(i, perm) ==
  /\ i \in DOMAIN rolePerms
  /\ rolePerms[i].perm # perm
  /\ rolePerms' = [rolePerms EXCEPT ![i].perm = perm]
  /\ UNCHANGED <<users, modules, roles, userPerms, payDisputes, irNteLogs,
                 year, pc, req, resp>>

\* the display name of a roles row written by the administration of the
\* database
set_role_display_name(r, display_name) ==
  /\ r \in DOMAIN roles
  /\ roles[r].display_name # display_name
  /\ roles' = [roles EXCEPT ![r].display_name = display_name]
  /\ UNCHANGED <<users, modules, rolePerms, userPerms, payDisputes, irNteLogs,
                 year, pc, req, resp>>

\* the store before the first start-up
InitSeed ==
  /\ users = EmptyTable
  /\ modules = EmptyTable
  /\ roles = EmptyTable
  /\ rolePerms = EmptyTable
  /\ userPerms = EmptyTable
  /\ payDisputes = EmptyTable
  /\ irNteLogs = EmptyTable
  /\ year = 2026
  /\ pc = [p \in Procs |-> "idle"]
  /\ req = [p \in Procs |-> NoReq]
  /\ resp = [p \in Procs |-> NoResp]

\* start-ups, complete or interrupted, and administration between them
NextSeed ==
  \/ \E commits \in 0..SeedCommits : seed_roles_and_modules(commits)
  \/ \E m \in DOMAIN modules, b \in BOOLEAN : set_module_active(m, b)
  \/ \E i \in DOMAIN rolePerms : set_role_permission(i, NoPerm)
  \/ \E r \in DOMAIN roles : set_role_display_name(r, "Renamed")

SpecSeed == InitSeed /\ [][NextSeed]_vars

\* override tables the reads meet
ReadOverrides ==
  { EmptyTable,
    <<[user_id |-> 2, module_id |-> MODULES["dtr"].id,
       perm |-> Perm(TRUE, FALSE, TRUE, FALSE)]>>,
    <<[user_id |-> 2, module_id |-> MODULES["user_management"].id,
       perm |-> Perm(TRUE, FALSE, FALSE, FALSE)],
      [user_id |-> 1, module_id |-> MODULES["dtr"].id, perm |-> NoPerm]>> }

\* the seeded store, with or without overrides and a deactivated module
InitRead ==
  /\ users \in SeededUsers
  /\ modules \in {SeededModules,
                  [SeededModules EXCEPT !["dtr"].is_active = FALSE]}
  /\ roles = SeededRoles
  /\ rolePerms = SeededRolePerms
  /\ userPerms \in ReadOverrides
  /\ payDisputes = EmptyTable
  /\ irNteLogs = EmptyTable
  /\ year = 2026
  /\ pc = [p \in Procs |-> "idle"]
  /\ req = [p \in Procs |-> NoReq]
  /\ resp = [p \in Procs |-> NoResp]

\* two workers reading
NextRead ==
  \E p \in Procs :
    \/ \E op \in ReadOps, user \in UserIds,
          m \in ReadModules \cup {None}, a \in ReadActions \cup {None} :
         read_begin(p, op, user, m, a)
    \/ read_role_rows(p)
    \/ read_custom_rows(p)
    \/ read_modules(p)

SpecRead == InitRead /\ [][NextRead]_vars

\* requests served one at a time, role changes and module (de)activation
NextAccess ==
  \/ \E caller \in Callers, u \in TargetUsers, m \in RequestModules,
        f \in FlagChoices :
       update_user_permissions_call(Worker, caller, u, m, f)
  \/ \E caller \in Callers, u \in TargetUsers, m \in RequestModules :
       remove_user_permissions(Worker, caller, u, m)
  \/ \E caller \in Callers, u \in TargetUsers, r \in RequestRoles :
       update_user_role(Worker, caller, u, r)
  \/ \E m \in ModuleNames, b \in BOOLEAN : set_module_active(m, b)

SpecAccess == Init /\ [][NextAccess]_vars


(***************************************************************************)
(* Properties.                                                             *)
(***************************************************************************)
HasRoleRow(u, m) ==
  /\ m \in DOMAIN modules
  /\ \E i \in DOMAIN rolePerms : /\ rolePerms[i].role_id = users[u].role_id
                                 /\ rolePerms[i].module_id = modules[m].id

\* the flag the role of user u grants by default on module m
RoleDefault(u, m, a) ==
  /\ m \in DOMAIN modules
  /\ \E i \in DOMAIN rolePerms : /\ rolePerms[i].role_id = users[u].role_id
                                 /\ rolePerms[i].module_id = modules[m].id
                                 /\ rolePerms[i].perm[a]

\* the flag the overrides of user u grant on module m
OverrideFlag(u, m, a) ==
  /\ m \in DOMAIN modules
  /\ \E i \in OverrideRows(u, m) : userPerms[i].perm[a]

C2_NoConflictSurfaced ==
  \A p \in Procs : resp[p].status # "500"

\* C3: no two stored pay disputes share a ticket_no and no two stored IR/NTE
\* logs share a doc_id
C3_IdentifiersUnique ==
  /\ \A i, j \in DOMAIN payDisputes : payDisputes[i] = payDisputes[j] => i = j
  /\ \A i, j \in DOMAIN irNteLogs : irNteLogs[i] = irNteLogs[j] => i = j

\* the unique index has rejected an insert of an identifier already stored
C3_Witness ==
  \E p \in Procs :
    /\ resp[p].status = "500"
    /\ Cardinality(Matching(payDisputes, "PAY", year)) >= 1

\* the suffixes of the current-year rows of a prefix, in creation order,
\* are 1, 2, ..., N
CountsUp(table, prefix) ==
  LET ids == SortedIds(Matching(table, prefix, year))
  IN \A k \in 1..Len(ids) :
       /\ IsNumeric(table[ids[k]].suffix)
       /\ ParseInt(table[ids[k]].suffix) = k

\* C4: sequential creations within one year, from a store without
\* identifiers of that year, are numbered 1, 2, ..., N per prefix, and each
\* call returns the identifier it stored
C4_SequentialNumbers ==
  /\ CountsUp(payDisputes, "PAY")
  /\ \A d \in DocTypes : CountsUp(irNteLogs, d)
  /\ \A p \in Procs :
       /\ resp[p].status \in {None, "200"}
       /\ resp[p].status = "200" =>
            \/ \E i \in DOMAIN payDisputes : payDisputes[i] = resp[p].ticket
            \/ \E i \in DOMAIN irNteLogs : irNteLogs[i] = resp[p].ticket

\* three pay disputes numbered in the current year, next to rows of the year
\* before or IR/NTE rows
C4_Witness ==
  /\ Cardinality(Matching(payDisputes, "PAY", year)) >= 2
  /\ \E p \in Procs : /\ resp[p].status = "200"
                      /\ resp[p].ticket = Ticket("PAY", year, 2)
  /\ irNteLogs # EmptyTable

\* C5: at most one UserModulePermission row per (user_id, module_id)
C5_OneRowPerPair ==
  \A i, j \in DOMAIN userPerms :
    (/\ userPerms[i].user_id = userPerms[j].user_id
     /\ userPerms[i].module_id = userPerms[j].module_id) => i = j

\* C6: a grant call that no other call overlaps leaves exactly one row for
\* its (user, module), carrying the flags passed
C6_RegrantLeavesOneRow ==
  [][\A p \in Procs :
       (/\ pc[p] = "idle"
        /\ pc'[p] = "idle"
        /\ resp'[p].status = "200")
       => \A u \in TargetUsers, m \in RequestModules \cap ModuleNames,
             f \in FlagChoices :
            update_user_permissions_call(p, resp'[p].caller, u, m, f)
            => LET rows == {i \in DOMAIN userPerms' :
                              /\ userPerms'[i].user_id = u
                              /\ userPerms'[i].module_id = modules[m].id}
               IN /\ Cardinality(rows) = 1
                  /\ \A i \in rows : userPerms'[i].perm = f]_vars

RoleDefaultAlone(permissions, u, m) ==
  IF HasRoleRow(u, m)
  THEN /\ m \in DOMAIN permissions
       /\ \A a \in Actions : permissions[m][a] = RoleDefault(u, m, a)
  ELSE m \notin DOMAIN permissions

\* C8: after revoke_custom_permission(user, module) returns, the user's
\* resolved flags of that module are the role default alone
C8_RevokeRemovesOverride ==
  [][\A p \in Procs :
       (/\ pc' = pc
        /\ pc[p] = "idle"
        /\ resp'[p].status = "200"
        /\ \A q \in Procs \ {p} : resp'[q] = resp[q])
       => \A u \in TargetUsers, m \in RequestModules :
            remove_user_permissions(p, resp'[p].caller, u, m)
            => RoleDefaultAlone(Resolve(users', modules', rolePerms', userPerms', u),
                                u, m)]_vars

\* C9: check_permission is false when the module is absent from the resolved
\* map or the action is none of view / create / edit / delete, and is the
\* flag otherwise
C9_UnknownActionIsFalse ==
  \A u \in DOMAIN users :
    LET permissions == get_user_permissions(u)
    IN \A m \in ModuleNames \cup {UnknownModule}, a \in ActionNames :
         IF m \notin DOMAIN permissions \/ a \notin Actions
         THEN LookUp(permissions, m, a) = PyBool(FALSE)
         ELSE LookUp(permissions, m, a) = PyBool(permissions[m][a])

\* the caller is authenticated and check_permission holds for the guard of
\* the user-permission routes
Permitted(caller) ==
  /\ caller \in DOMAIN users
  /\ check_permission(caller, RouteGuard.update_user_permissions.module,
                      RouteGuard.update_user_permissions.action) = PyBool(TRUE)

\* C10: a request enters its handler only if its caller is authenticated and
\* check_permission held; an unauthenticated caller gets 401, an
\* unauthorised one 403, and neither changes the store
C10_GuardBeforeHandler ==
  [][/\ \A p \in Procs :
          /\ (pc[p] = "idle" /\ pc'[p] = "grant_commit") =>
               Permitted(req'[p].caller)
          /\ (pc[p] = "idle" /\ pc'[p] = "idle" /\ resp'[p] # resp[p]) =>
               /\ resp'[p].status = "401" <=> resp'[p].caller \notin DOMAIN users
               /\ resp'[p].status = "403" <=>
                    (resp'[p].caller \in DOMAIN users /\ ~Permitted(resp'[p].caller))
               /\ resp'[p].status \in {"401", "403"} => store' = store
     /\ (store' # store /\ pc' = pc) =>
          \E p \in Procs : /\ pc[p] = "idle"
                           /\ resp'[p].status = "200"
                           /\ Permitted(resp'[p].caller)
                           /\ \A q \in Procs \ {p} : resp'[q] = resp[q]]_vars

\* one worker has answered 403 while another is inside the grant handler
C10_Witness ==
  \E p, q \in Procs :
    /\ resp[p].status = "403"
    /\ pc[q] = "grant_commit"
    /\ userPerms # EmptyTable

\* the module names of a listing
Listed(accessible) == {accessible[k].name : k \in 1..Len(accessible)}

\* C11: no listing of any user holds a module whose is_active is false, and
\* a listed module whose is_active becomes false is not in the next listing
C11_InactiveNeverListed ==
  [][\A u \in DOMAIN users :
       LET now == Listed(get_accessible_modules(u))
           next == Listed(Accessible(users', modules', rolePerms', userPerms', u))
       IN /\ \A m \in now : modules[m].is_active
          /\ \A m \in next : modules'[m].is_active
          /\ \A m \in now : ~modules'[m].is_active => m \notin next]_vars

\* a deactivated module on which both the role and an override grant view
C11_Witness ==
  \E u \in DOMAIN users, m \in ModuleNames :
    /\ ~modules[m].is_active
    /\ RoleDefault(u, m, "view")
    /\ OverrideFlag(u, m, "view")
    /\ m \notin Listed(get_accessible_modules(u))

\* C12: the listing of a user is exactly the active modules whose resolved
\* view flag is true, each once, in ascending sort_order, each entry with
\* the user's resolved flags
C12_ListingExact ==
  \A u \in DOMAIN users :
    LET accessible == get_accessible_modules(u)
        idx == 1..Len(accessible)
    IN /\ Listed(accessible) =
            {m \in ModuleNames :
               /\ modules[m].is_active
               /\ RoleDefault(u, m, "view") \/ OverrideFlag(u, m, "view")}
       /\ \A j, k \in idx :
            j < k => modules[accessible[j].name].sort_order
                       < modules[accessible[k].name].sort_order
       /\ \A k \in idx :
            LET m == accessible[k].name
            IN /\ accessible[k].can_view =
                    (RoleDefault(u, m, "view") \/ OverrideFlag(u, m, "view"))
               /\ accessible[k].can_create =
                    (RoleDefault(u, m, "create") \/ OverrideFlag(u, m, "create"))
               /\ accessible[k].can_edit =
                    (RoleDefault(u, m, "edit") \/ OverrideFlag(u, m, "edit"))
               /\ accessible[k].can_delete =
                    (RoleDefault(u, m, "delete") \/ OverrideFlag(u, m, "delete"))

\* a listing of two modules, one of them through an override alone, that
\* leaves out a deactivated module the role grants view on
C12_Witness ==
  \E u \in DOMAIN users :
    /\ Len(get_accessible_modules(u)) = 2
    /\ \E m \in ModuleNames : /\ m \in Listed(get_accessible_modules(u))
                              /\ ~RoleDefault(u, m, "view")
    /\ \E m \in ModuleNames : /\ ~modules[m].is_active
                              /\ RoleDefault(u, m, "view")

\* C13: a user with no role and no override row resolves to the empty map,
\* lists no module, and is refused every module name and every action
C13_NoRoleNoAccess ==
  \A u \in DOMAIN users :
    (/\ users[u].role_id = None
     /\ \A i \in DOMAIN userPerms : userPerms[i].user_id # u)
    => /\ DOMAIN get_user_permissions(u) = {}
       /\ get_accessible_modules(u) = <<>>
       /\ \A m \in ModuleNames \cup {UnknownModule}, a \in ActionNames :
            check_permission(u, m, a) = PyBool(FALSE)

\* a user without a role whose override has been revoked
C13_Witness ==
  \E u \in DOMAIN users :
    /\ users[u].role_id = None
    /\ userPerms = EmptyTable
    /\ resp[Worker].status = "200"

C15_NextIsMaxPlusOne ==
  /\ NewNum(payDisputes, "PAY", year) = MaxSuffix(payDisputes, "PAY", year) + 1
  /\ \A d \in DocTypes :
       NewNum(irNteLogs, d, year) = MaxSuffix(irNteLogs, d, year) + 1

\* the row the generator consults (highest id of the prefix and year) has a
\* suffix that is not a number
LatestMalformed(table, prefix) ==
  LET rows == {i \in DOMAIN table : /\ table[i].prefix = prefix
                                    /\ table[i].year = year}
  IN /\ rows # {}
     /\ ~IsNumeric(table[Max(rows)].suffix)

\* C16: when the consulted identifier has a non-numeric suffix the generator
\* returns the identifier numbered 1 of the prefix and the current year
C16_MalformedRestartsAtOne ==
  /\ LatestMalformed(payDisputes, "PAY") =>
       generate_ticket_number = [prefix |-> "PAY", year |-> year,
                                 suffix |-> <<0, 0, 0, 1>>]
  /\ \A d \in DocTypes :
       LatestMalformed(irNteLogs, d) =>
         generate_doc_id(d) = [prefix |-> d, year |-> year,
                               suffix |-> <<0, 0, 0, 1>>]

\* the consulted pay dispute is malformed while a numbered one of the year
\* is stored, a creation has consulted it, and the consulted doc_id is
\* malformed too
C16_Witness ==
  /\ LatestMalformed(payDisputes, "PAY")
  /\ MaxSuffix(payDisputes, "PAY", year) >= 1
  /\ \E d \in DocTypes : LatestMalformed(irNteLogs, d)
  /\ resp[Worker].status = "500"

\* C17: a create_pay_dispute call made while a malformed identifier of the
\* current year is stored succeeds and stores the ticket it returns
C17_MalformedNeverBlocks ==
  [][(/\ create_pay_dispute_call(Worker)
      /\ \E i \in DOMAIN payDisputes : /\ payDisputes[i].prefix = "PAY"
                                       /\ payDisputes[i].year = year
                                       /\ ~IsNumeric(payDisputes[i].suffix))
     => /\ resp'[Worker].status = "200"
        /\ \E i \in DOMAIN payDisputes' \ DOMAIN payDisputes :
             payDisputes'[i] = resp'[Worker].ticket]_vars

\* no identifier of the prefix and year is stored
NoneOfYear(table, prefix, yr) ==
  \A i \in DOMAIN table : ~(table[i].prefix = prefix /\ table[i].year = yr)

\* the rows of table are in after, unchanged
Kept(table, after) ==
  \A i \in DOMAIN table : i \in DOMAIN after /\ after[i] = table[i]

\* C18: the first identifier created for a prefix in a year carries that
\* year and the number 1 however many identifiers of earlier years are
\* stored, and storing it leaves the stored rows as they were
C18_RolloverRestartsAtOne ==
  [][/\ (create_pay_dispute_call(Worker) /\ NoneOfYear(payDisputes, "PAY", year))
        => /\ resp'[Worker].status = "200"
           /\ resp'[Worker].ticket = [prefix |-> "PAY", year |-> year,
                                      suffix |-> <<0, 0, 0, 1>>]
           /\ \E i \in DOMAIN payDisputes' \ DOMAIN payDisputes :
                payDisputes'[i] = resp'[Worker].ticket
           /\ Kept(payDisputes, payDisputes')
     /\ \A d \in DocTypes :
          (create_ir_nte_log_call(Worker, d) /\ NoneOfYear(irNteLogs, d, year))
          => /\ resp'[Worker].status = "200"
             /\ resp'[Worker].ticket = [prefix |-> d, year |-> year,
                                        suffix |-> <<0, 0, 0, 1>>]
             /\ \E i \in DOMAIN irNteLogs' \ DOMAIN irNteLogs :
                  irNteLogs'[i] = resp'[Worker].ticket
             /\ Kept(irNteLogs, irNteLogs')]_vars

\* after New Year the first pay dispute of the new year was created next to
\* identifiers of the old year numbered up to 2 at least
C18_Witness ==
  /\ year = 2027
  /\ MaxSuffix(payDisputes, "PAY", 2026) >= 2
  /\ Cardinality({i \in DOMAIN payDisputes : payDisputes[i].year = 2026}) >= 2
  /\ resp[Worker].status = "200"
  /\ resp[Worker].ticket = [prefix |-> "PAY", year |-> 2027,
                            suffix |-> <<0, 0, 0, 1>>]
  /\ \E i \in DOMAIN payDisputes : payDisputes[i] = resp[Worker].ticket

\* C19: a grant and a revocation that name a module missing from the catalog
\* are answered with a status that is neither the success status nor a
\* denial, and leave user_module_permissions as it was
C19_UnknownModuleSignalled ==
  [][(/\ pc' = pc
      /\ resp'[Worker].caller \in DOMAIN users
      /\ Permitted(resp'[Worker].caller))
     => \A u \in TargetUsers :
          /\ \A f \in FlagChoices :
               update_user_permissions_call(Worker, resp'[Worker].caller, u,
                                            UnknownModule, f)
               => /\ resp'[Worker].status \notin {"200", "401", "403"}
                  /\ userPerms' = userPerms
          /\ remove_user_permissions(Worker, resp'[Worker].caller, u,
                                     UnknownModule)
             => /\ resp'[Worker].status \notin {"200", "401", "403"}
                /\ userPerms' = userPerms]_vars

\* C20: a revocation returns true exactly when a row of (user, module) was
\* stored, leaves no row of that pair, and leaves every other row as it was
C20_RevokeFrame ==
  [][\A p \in Procs :
       (/\ pc' = pc
        /\ pc[p] = "idle"
        /\ resp'[p].status = "200"
        /\ \A q \in Procs \ {p} : resp'[q] = resp[q])
       => \A u \in TargetUsers, m \in RequestModules \cap ModuleNames :
            remove_user_permissions(p, resp'[p].caller, u, m)
            => /\ revoke_result(u, m) <=>
                    \E i \in DOMAIN userPerms :
                      /\ userPerms[i].user_id = u
                      /\ userPerms[i].module_id = modules[m].id
               /\ \A i \in DOMAIN userPerms' :
                    /\ i \in DOMAIN userPerms
                    /\ ~(/\ userPerms'[i].user_id = u
                         /\ userPerms'[i].module_id = modules[m].id)
               /\ \A i \in DOMAIN userPerms :
                    ~(/\ userPerms[i].user_id = u
                      /\ userPerms[i].module_id = modules[m].id)
                    => /\ i \in DOMAIN userPerms'
                       /\ userPerms'[i] = userPerms[i]]_vars

\* the identifiers stored for a prefix and a year
IdsOf(table, prefix, yr) ==
  {table[i] : i \in {j \in DOMAIN table : /\ table[j].prefix = prefix
                                          /\ table[j].year = yr}}

\* C26: the next number of a prefix and year changes only when the
\* identifiers stored for that prefix and year change: a creation for one
\* prefix leaves the next number of every other prefix as it was
C26_SequencesPerPrefix ==
  [][/\ \A yr \in {year - 1, year} :
          IdsOf(payDisputes', "PAY", yr) = IdsOf(payDisputes, "PAY", yr)
          => NewNum(payDisputes', "PAY", yr) = NewNum(payDisputes, "PAY", yr)
     /\ \A d \in DocTypes, yr \in {year - 1, year} :
          IdsOf(irNteLogs', d, yr) = IdsOf(irNteLogs, d, yr)
          => NewNum(irNteLogs', d, yr) = NewNum(irNteLogs, d, yr)]_vars

\* documents of both types and a pay dispute were created, and the three
\* next numbers differ
C26_Witness ==
  /\ NewNum(irNteLogs, "IR", year) = 3
  /\ NewNum(irNteLogs, "NTE", year) = 2
  /\ NewNum(payDisputes, "PAY", year) = 2

\* C27: two successful creations never return the same ticket number
C27_TicketNeverReassigned ==
  \A p, q \in Procs :
    (/\ p # q
     /\ resp[p].status = "200" /\ resp[p].ticket # NoTicket
     /\ resp[q].status = "200" /\ resp[q].ticket # NoTicket)
    => resp[p].ticket # resp[q].ticket

\* C30: check_permission returns the same value on the store and on the
\* store that differs in the is_active flag of one module
C30_CheckIgnoresIsActive ==
  \A u \in DOMAIN users, n \in ModuleNames :
    LET here == get_user_permissions(u)
        there == Resolve(users,
                         [modules EXCEPT ![n].is_active = ~modules[n].is_active],
                         rolePerms, userPerms, u)
    IN \A m \in ModuleNames \cup {UnknownModule}, a \in ActionNames :
         LookUp(there, m, a) = LookUp(here, m, a)

\* a deactivated module is missing from the listing of a user whom
\* check_permission grants view on it
C30_Witness ==
  \E u \in DOMAIN users, m \in ModuleNames :
    /\ ~modules[m].is_active
    /\ m \notin Listed(get_accessible_modules(u))
    /\ check_permission(u, m, "view") = PyBool(TRUE)
    /\ OverrideRows(u, m) # {}

\* C23: a step that deletes a user leaves no override row of that user and
\* keeps every override row of the other users as it was.
C23_DeleteRemovesOverrides ==
  [][\A u \in DOMAIN users :
       u \notin DOMAIN users'
       => /\ \A i \in DOMAIN userPerms' : userPerms'[i].user_id # u
          /\ \A i \in DOMAIN userPerms :
               userPerms[i].user_id # u
               => i \in DOMAIN userPerms' /\ userPerms'[i] = userPerms[i]]_vars

\* user 2 was deleted with its override row 1; row 2, of user 1, remains
C23_Witness ==
  /\ 2 \notin DOMAIN users
  /\ DOMAIN userPerms = {2}
  /\ userPerms[2].user_id = 1
  /\ \E p \in Procs : resp[p].status = "200" /\ pc[p] = "idle"

\* no two rows of the table share an email or an employee number
UniqueUsers(usrs) ==
  \A u, v \in DOMAIN usrs :
    u # v => /\ usrs[u].email # usrs[v].email
             /\ usrs[u].employee_no # usrs[v].employee_no

\* C24: no two users ever share an email or an employee number; a creation
\* passes its checks only with an email and a number nobody holds, and a
\* creation or an update that reaches its commit with a value held by
\* another user is rejected and leaves the users table unchanged.
C24_UniqueEmailAndNumber ==
  [][/\ UniqueUsers(users')
     /\ \A p \in Procs :
          /\ (pc[p] = "idle" /\ pc'[p] = "create_user")
             => /\ EmailHolders(users, NoId, req'[p].data.email) = {}
                /\ EmployeeNoHolders(users, NoId, req'[p].data.employee_no) = {}
          /\ (/\ pc[p] = "create_user" /\ pc'[p] = "idle"
              /\ \/ EmailHolders(users, NoId, req[p].data.email) # {}
                 \/ EmployeeNoHolders(users, NoId, req[p].data.employee_no) # {})
             => resp'[p].status \in {"400", "500"} /\ users' = users
          /\ (/\ pc[p] = "update_user_commit" /\ pc'[p] = "idle"
              /\ req[p].user_id \in DOMAIN users
              /\ \/ /\ req[p].data.email # None
                    /\ EmailHolders(users, req[p].user_id, req[p].data.email) # {}
                 \/ /\ req[p].data.employee_no # None
                    /\ EmployeeNoHolders(users, req[p].user_id,
                                         req[p].data.employee_no) # {})
             => resp'[p].status \in {"400", "500"} /\ users' = users]_vars

\* a creation passed its checks, met the unique index at its commit and was
\* rejected, the other one having created user 3
C24_Witness ==
  /\ 3 \in DOMAIN users
  /\ users[3].email = "cy@bpo.com"
  /\ \E p \in Procs : resp[p].status = "500" /\ resp[p].caller = 1
  /\ UniqueUsers(users)

\* C28: a request answered with success never leaves its caller deleted or
\* deactivated.
C28_NoSelfLockout ==
  [][\A p \in Procs :
       (/\ resp'[p] # resp[p]
        /\ resp'[p].status = "200"
        /\ resp'[p].caller \in DOMAIN users)
       => LET c == resp'[p].caller
          IN /\ c \in DOMAIN users'
             /\ users[c].is_active => users'[c].is_active]_vars

\* a user the filters of a directory request select
MatchesFilters(u, filters) ==
  /\ filters.search # None
     => \E column \in {"full_name", "employee_no", "email"} :
          users[u][column] \in Containing[filters.search]
  /\ filters.is_active # None => users[u].is_active = (filters.is_active = "true")
  /\ filters.role_name # None => users[u].role_id = filters.role_name

\* C25: for every search term, filter, sort order and page the directory
\* returns no user whose role is admin, and total_count is the number of
\* users whose role is not admin (users with no role included) that match
\* the filters.
C25_DirectoryCountsNonAdmins ==
  \A filters \in FilterChoices :
    LET r == get_employees_with_filters(filters)
    IN /\ \A i \in DOMAIN r.employees : users[r.employees[i]].role_id # "admin"
       /\ r.total_count =
            Cardinality({u \in DOMAIN users : /\ users[u].role_id # "admin"
                                              /\ MatchesFilters(u, filters)})

\* every row of the table `before` is in the table `after` as it was
RowsKept(before, after) ==
  \A i \in DOMAIN before : i \in DOMAIN after /\ after[i] = before[i]

\* C22: in every store, a run of seed_roles_and_modules, complete or
\* interrupted, keeps every existing modules, roles and role-permission row
\* as it is and inserts modules and roles only under names of the catalog
\* that had no row; on a store that holds every module and role of the
\* catalog it changes nothing, and a second complete run changes nothing
\* after a first.
C22_SeedInsertsOnlyAbsent ==
  \A commits \in 0..SeedCommits :
    LET s == Seeded(modules, roles, rolePerms, commits)
        again == Seeded(s.modules, s.roles, s.rolePerms, SeedCommits)
    IN /\ RowsKept(modules, s.modules)
       /\ RowsKept(roles, s.roles)
       /\ RowsKept(rolePerms, s.rolePerms)
       /\ DOMAIN s.modules \ DOMAIN modules \subseteq ModuleNames
       /\ DOMAIN s.roles \ DOMAIN roles \subseteq RoleNames
       /\ (ModuleNames \subseteq DOMAIN modules /\ RoleNames \subseteq DOMAIN roles)
          => s = [modules |-> modules, roles |-> roles, rolePerms |-> rolePerms]
       /\ commits = SeedCommits => again = s

\* every catalog row is stored, with a module deactivated, a role renamed
\* and the flags of a role permission cleared by the administration
C22_Witness ==
  /\ DOMAIN modules = ModuleNames
  /\ DOMAIN roles = RoleNames
  /\ DOMAIN rolePerms = 1..Len(SeedPairs)
  /\ ~modules["dtr"].is_active
  /\ roles["agent"].display_name = "Renamed"
  /\ rolePerms[1].perm = NoPerm

\* role r has a role-permission row for each module of its table
HasPermissionRows(mods, role_perms, r) ==
  \A m \in DOMAIN ROLES[r] :
    \E i \in DOMAIN role_perms : /\ role_perms[i].role_id = r
                                 /\ m \in DOMAIN mods
                                 /\ role_perms[i].module_id = mods[m].id

\* C29: a complete run of seed_roles_and_modules leaves every stored role
\* of ROLES with a role-permission row for each module of its table.
C29_SeedCompletesRoles ==
  [][LET s == Seeded(modules, roles, rolePerms, SeedCommits)
     IN <<modules', roles', rolePerms'>> = <<s.modules, s.roles, s.rolePerms>>
        => \A r \in DOMAIN roles' \cap RoleNames :
             HasPermissionRows(modules', rolePerms', r)]_vars

\* C21: every step of a read leaves the users, modules, roles, role
\* permission and override rows unchanged, and a read that returns, alone or
\* overlapping reads of the other worker for the same or another user,
\* returns what the function gives on that store.
C21_ReadsAreReadOnly ==
  [][/\ UNCHANGED <<users, modules, roles, rolePerms, userPerms>>
     /\ \A p \in Procs :
          LET r == resp'[p].result
          IN /\ r.op = "get_user_permissions"
                => r.value = get_user_permissions(r.user_id)
             /\ r.op = "check_permission"
                => r.value = check_permission(r.user_id, r.module, r.action)
             /\ r.op = "get_accessible_modules"
                => r.value = get_accessible_modules(r.user_id)]_vars

\* worker 1 returned the dict of user 2, built while worker 2 was reading;
\* worker 2 is in the middle of a read of user 1
C21_Witness ==
  /\ resp[1].result.op = "get_user_permissions"
  /\ resp[1].result.user_id = 2
  /\ resp[1].result.overlapped
  /\ resp[1].result.value # EmptyMap
  /\ pc[2] = "custom_rows"
  /\ req[2].user_id = 1
  /\ req[2].map # EmptyMap

====
